---- MODULE Spec2Model ----
(***************************************************************************)
(* LiveSessionManager (services/liveService.ts): the live audio/video      *)
(* session of the hackathon copilot.  One manager object, the browser      *)
(* resources it acquires (audio contexts, microphone stream, capture       *)
(* nodes, interval timers), the Gemini Live transport with its callbacks,  *)
(* and the caller-visible callbacks onAudioData / onError.  Of the call UI  *)
(* (components/ChatInterface.tsx) the screen-share toggle is modelled.     *)
(*                                                                         *)
(* Every handler runs to completion (one JavaScript task); connect() is    *)
(* the only operation with suspension points (getUserMedia, the session    *)
(* promise).  Times are in sample periods of the 24 kHz output context, so *)
(* a chunk of n bytes lasts n/2 units.  At most one connect() call is in   *)
(* flight at a time.                                                       *)
(***************************************************************************)
EXTENDS Integers, Sequences, FiniteSets, TLC

\* ---- bounds of the model ------------------------------------------------
MaxConnects == 2
MaxDisconnects == 2
MaxTimers == 2
MaxMsgs == 3
MaxReMsgs == 2
MaxLifeConnects == 1
MaxLifeMsgs == 1
MaxLifeClock == 1
MaxClock == 2
MaxFrames == 2
MaxVideoTicks == 2
MaxBytes == 4
SampleSteps == 10
MaxSamples == 2
MaxRawBytes == 4
MaxRequests == 2

Epochs == 1..MaxConnects
Timers == 1..MaxTimers

\* ---- video settings (startVideoStreaming), in percent -------------------
CameraScale == 25
ScreenScale == 50
CameraQuality == 50
ScreenQuality == 70

VARIABLES
    \* the build environment: whether an API key is configured
    apiKey,
    \* how many connect() and disconnect() calls, server messages and clock ticks
    \* a behaviour may contain
    budget,
    \* fields of LiveSessionManager (0 stands for null)
    session, inputContext, outputContext, inputSource, processor,
    nextStartTime, isConnected, videoInterval, isScreenSharing,
    \* the connect() call in flight
    epoch, pc, failCause,
    \* browser and transport resources
    res, releases, transport, promise, clock,
    \* effects observed from outside
    started, captured, pendingSends, audioSent, videoSent, lastVideo, lateSends,
    speaking, errors, lateCallbacks, raised,
    \* the last server message delivered to onmessage
    lastMsg,
    \* the call UI (ChatInterface): its own isScreenSharing state
    uiScreenSharing,
    \* a sample or byte sequence on its way through the converters
    conv,
    \* invocations of the asynchronous onmessage handler that are suspended
    handlers,
    \* the founder-video generation of the chat (ChatInterface)
    gen,
    \* bookkeeping of the lifecycle
    tornDown, explicitDisc, justDisc, nDisc, nMsgs, nTicks, nStart

fields == <<session, inputContext, outputContext, inputSource, processor,
            nextStartTime, isConnected, videoInterval, isScreenSharing>>
call == <<epoch, pc, failCause>>
env == <<res, releases, transport, promise, clock>>
sends == <<captured, pendingSends, audioSent, videoSent, lastVideo, lateSends>>
callbacks == <<speaking, errors, lateCallbacks>>
obs == <<started, sends, callbacks, raised>>
life == <<tornDown, explicitDisc, justDisc, nDisc, nMsgs, nTicks, nStart>>
aux == <<conv, handlers, gen>>
vars == <<apiKey, budget, fields, call, env, obs, lastMsg, uiScreenSharing, aux, life>>

Resources == ({"inCtx", "outCtx", "mic", "source", "processor"} \X Epochs)
             \cup ({"timer"} \X Timers)

\* ---- payload of a server message ---------------------------------------
\* text: "none" (no inlineData), "bad" (atob throws), "ok" (decodes to nbytes bytes)
NoAudio == [text |-> "none", nbytes |-> 0]
BadText == [text |-> "bad", nbytes |-> 0]
Payloads == {[text |-> "ok", nbytes |-> n] : n \in 2..MaxBytes} \cup {BadText}

\* what a message carries: no audio, a chunk of whole 16-bit samples in valid
\* base64, or a chunk that is not (invalid text, odd number of bytes)
Class(p) ==
    IF p = NoAudio THEN "none"
    ELSE IF p.text = "bad" \/ p.nbytes % 2 = 1 THEN "malformed" ELSE "valid"

Max(a, b) == IF a > b THEN a ELSE b

\* nothing is being converted, no handler is suspended, no video is generated
NoConv == [kind |-> "none", stage |-> "none", samples |-> <<>>, pcm |-> <<>>,
           bytes |-> <<>>, text |-> <<>>, back |-> <<>>, out |-> <<>>]

Requests == 1..MaxRequests

\* a chat message for which handleSend has not run yet
NoRequest == [stage |-> "idle", auto |-> FALSE, retryCount |-> 0, attempts |-> 0]

\* ChatInterface after its first render: autoVideo and veoDisabled are false
NoGen == [autoVideo |-> FALSE, veoDisabled |-> FALSE, isLoading |-> FALSE,
          aistudio |-> FALSE, reqs |-> [r \in Requests |-> NoRequest],
          startedLocked |-> FALSE]

Idle == conv = NoConv /\ handlers = <<>> /\ gen = NoGen

\* the state after new LiveSessionManager()
Constructed ==
    /\ apiKey \in BOOLEAN
    /\ session = 0 /\ inputContext = 0 /\ outputContext = 0
    /\ inputSource = 0 /\ processor = 0
    /\ nextStartTime = 0 /\ isConnected = FALSE
    /\ videoInterval = 0 /\ isScreenSharing = FALSE
    /\ epoch = 0 /\ pc = "idle" /\ failCause = "none"
    /\ res = [r \in Resources |-> "none"]
    /\ releases = [r \in Resources |-> 0]
    /\ transport = [k \in Epochs |-> "none"]
    /\ promise = [k \in Epochs |-> "none"]
    /\ clock = 0
    /\ started = <<>> /\ captured = 0
    /\ pendingSends = [k \in Epochs |-> <<>>]
    /\ audioSent = [k \in Epochs |-> <<>>] /\ videoSent = 0
    /\ lastVideo = [scale |-> 0, quality |-> 0, fresh |-> TRUE, prevScale |-> 0]
    /\ lateSends = {}
    /\ speaking = "unset" /\ errors = [k \in Epochs |-> 0]
    /\ lateCallbacks = {} /\ raised = {}
    /\ lastMsg = [audio |-> "none", turnComplete |-> FALSE]
    /\ uiScreenSharing = FALSE
    /\ tornDown = FALSE /\ explicitDisc = FALSE /\ justDisc = FALSE
    /\ nDisc = 0 /\ nMsgs = 0 /\ nTicks = 0 /\ nStart = 0

\* lifecycle: one connect() with every operation of the manager
Init ==
    /\ Constructed /\ Idle
    /\ budget = [connects |-> MaxLifeConnects, disconnects |-> MaxDisconnects,
                 msgs |-> MaxLifeMsgs, clock |-> MaxLifeClock]

\* playback: one long session with a running clock, or shorter sessions with
\* reconnects in which every chunk arrives at clock value 0
InitPlayback ==
    /\ Constructed /\ Idle
    /\ budget \in {[connects |-> 1, disconnects |-> 1,
                    msgs |-> MaxMsgs, clock |-> MaxClock],
                   [connects |-> MaxConnects, disconnects |-> 1,
                    msgs |-> MaxReMsgs, clock |-> 0]}

\* ---- caller-visible callbacks -------------------------------------------
\* lateCallbacks: the callbacks invoked although an explicit disconnect() has
\* returned since the last connect(); "catch:onError" is the onError of
\* connect()'s own catch block, the other two come from transport handlers
Late(names) == IF explicitDisc THEN lateCallbacks \cup names ELSE lateCallbacks

\* ---- playAudioChunk -----------------------------------------------------
\* variant: the sample loop stops at the last whole sample, so a trailing odd
\* byte is ignored
DecodesWholeSamples(p) == p.text = "ok"

\* atob succeeds and the byte count is even (getInt16 reads past the end otherwise)
Decodes(p) == p.text = "ok" /\ p.nbytes % 2 = 0

\* buffer.duration: float32.length / 24000, in sample periods
Duration(p) == p.nbytes \div 2

\* variants of the scheduling arithmetic: the chunk is started on arrival,
\* or always appended to the queue
StartTimeOnArrival(currentTime, next) == currentTime

StartTimeQueued(currentTime, next) == next

\* const startTime = Math.max(currentTime, this.nextStartTime)
StartTime(currentTime, next) == Max(currentTime, next)

\* variant: the next start is counted from the arrival, not from the start
NextStartTimeFromArrival(currentTime, startTime, duration) == currentTime + duration

\* this.nextStartTime = startTime + buffer.duration
NextStartTime(currentTime, startTime, duration) == startTime + duration

Scheduled(p) ==
    LET startTime == StartTime(clock, nextStartTime)
    IN  [ctx |-> outputContext, arrival |-> clock, prev |-> nextStartTime,
         start |-> startTime, dur |-> Duration(p),
         next |-> NextStartTime(clock, startTime, Duration(p))]

\* ---- sample conversion (pcmToB64, playAudioChunk) -------------------------
\* A sample is n / SampleSteps, a decoded sample v / PcmScale; a text is the
\* sequence of its base64 digits (0..63, Pad for '=').
Int16Max == 32767
PcmScale == 32768
Pad == 64
ByteValues == {0, 65, 128, 255}

Min(a, b) == IF a < b THEN a ELSE b

Abs(a) == IF a < 0 THEN -a ELSE a

\* conversion of a number to an integer: the fraction is dropped
Trunc(num, den) == IF num >= 0 THEN num \div den ELSE -((-num) \div den)

\* variant: the sample is not clamped
ClampNone(n) == n

\* Math.max(-1, Math.min(1, data[i]))
Clamp(n) == Max(-SampleSteps, Min(SampleSteps, n))

\* storing a number in an Int16Array element: modulo 2^16, two's complement
ToInt16(v) ==
    LET u == v % 65536
    IN  IF u >= PcmScale THEN u - 65536 ELSE u

\* pcm16[i] = Math.max(-1, Math.min(1, data[i])) * 0x7FFF
FloatToPcm(n) == ToInt16(Trunc(Clamp(n) * Int16Max, SampleSteps))

\* new Uint8Array(pcm16.buffer): two bytes per sample, low byte first
PcmBytes(pcm) ==
    [i \in 1..(2 * Len(pcm)) |->
        LET u == pcm[(i + 1) \div 2] % 65536
        IN  IF i % 2 = 1 THEN u % 256 ELSE u \div 256]

\* byte j of b, 0 past its end
ByteAt(b, j) == IF j <= Len(b) THEN b[j] ELSE 0

\* String.fromCharCode per byte, then btoa: three bytes become four digits,
\* a last group of one or two bytes is padded with '='
BytesToText(b) ==
    [i \in 1..(4 * ((Len(b) + 2) \div 3)) |->
        LET g == (i - 1) \div 4
            pos == (i - 1) % 4
            val == ByteAt(b, 3 * g + 1) * 65536 + ByteAt(b, 3 * g + 2) * 256
                   + ByteAt(b, 3 * g + 3)
        IN  IF pos >= 2 /\ 3 * g + pos > Len(b) THEN Pad
            ELSE CASE pos = 0 -> val \div 262144
                   [] pos = 1 -> (val \div 4096) % 64
                   [] pos = 2 -> (val \div 64) % 64
                   [] OTHER -> val % 64]

Digit(t, i) == IF t[i] = Pad THEN 0 ELSE t[i]

Pads(t) == Cardinality({i \in 1..Len(t) : t[i] = Pad})

\* variant: the padding is decoded as data
TextToBytesPadded(t) ==
    [j \in 1..(3 * (Len(t) \div 4)) |->
        LET g == (j - 1) \div 3
            k == (j - 1) % 3
            val == Digit(t, 4 * g + 1) * 262144 + Digit(t, 4 * g + 2) * 4096
                   + Digit(t, 4 * g + 3) * 64 + Digit(t, 4 * g + 4)
        IN  CASE k = 0 -> val \div 65536
              [] k = 1 -> (val \div 256) % 256
              [] OTHER -> val % 256]

\* atob, then charCodeAt per character: four digits become three bytes, less
\* one byte per '='
TextToBytes(t) ==
    [j \in 1..(3 * (Len(t) \div 4) - Pads(t)) |->
        LET g == (j - 1) \div 3
            k == (j - 1) % 3
            val == Digit(t, 4 * g + 1) * 262144 + Digit(t, 4 * g + 2) * 4096
                   + Digit(t, 4 * g + 3) * 64 + Digit(t, 4 * g + 4)
        IN  CASE k = 0 -> val \div 65536
              [] k = 1 -> (val \div 256) % 256
              [] OTHER -> val % 256]

\* variant: getInt16 without the little-endian flag
BytesToPcmBigEndian(b) ==
    [i \in 1..(Len(b) \div 2) |->
        LET u == 256 * b[2 * i - 1] + b[2 * i]
        IN  IF u >= PcmScale THEN u - 65536 ELSE u]

\* dataView.getInt16(i * 2, true): the numerator of float32[i]
BytesToPcm(b) ==
    [i \in 1..(Len(b) \div 2) |->
        LET u == b[2 * i - 1] + 256 * b[2 * i]
        IN  IF u >= PcmScale THEN u - 65536 ELSE u]

SeqsOver(S, maxLen) == UNION {[1..n -> S] : n \in 0..maxLen}

\* the microphone delivers samples that may lie outside [-1, 1]
SampleJobs ==
    {[NoConv EXCEPT !.kind = "samples", !.stage = "input", !.samples = x] :
        x \in SeqsOver((-2 * SampleSteps)..(2 * SampleSteps), MaxSamples) \ {<<>>}}

ByteJobs ==
    {[NoConv EXCEPT !.kind = "bytes", !.stage = "input", !.bytes = b] :
        b \in SeqsOver(ByteValues, MaxRawBytes)}

\* pcmToB64(data)
PcmToB64 ==
    /\ conv.kind = "samples" /\ conv.stage = "input"
    /\ LET pcm == [i \in 1..Len(conv.samples) |-> FloatToPcm(conv.samples[i])]
       IN  conv' = [conv EXCEPT !.stage = "text", !.pcm = pcm,
                                !.bytes = PcmBytes(pcm),
                                !.text = BytesToText(PcmBytes(pcm))]
    /\ UNCHANGED <<apiKey, budget, fields, call, env, obs, lastMsg, uiScreenSharing,
                   handlers, gen, life>>

\* the second half of pcmToB64 applied to any bytes
EncodeBytes ==
    /\ conv.kind = "bytes" /\ conv.stage = "input"
    /\ conv' = [conv EXCEPT !.stage = "text", !.text = BytesToText(conv.bytes)]
    /\ UNCHANGED <<apiKey, budget, fields, call, env, obs, lastMsg, uiScreenSharing,
                   handlers, gen, life>>

\* the decoding part of playAudioChunk: getInt16 throws past the end of an
\* odd number of bytes
DecodeChunk ==
    /\ conv.stage = "text"
    /\ LET back == TextToBytes(conv.text)
       IN  conv' = IF Len(back) % 2 = 0
                   THEN [conv EXCEPT !.stage = "floats", !.back = back,
                                     !.out = BytesToPcm(back)]
                   ELSE [conv EXCEPT !.stage = "threw", !.back = back]
    /\ UNCHANGED <<apiKey, budget, fields, call, env, obs, lastMsg, uiScreenSharing,
                   handlers, gen, life>>

\* ---- disconnect() -------------------------------------------------------
ReleasedByDisconnect ==
    (IF inputSource # 0 THEN {<<"source", inputSource>>} ELSE {})
    \cup (IF processor # 0 THEN {<<"processor", processor>>} ELSE {})
    \cup (IF inputContext # 0 THEN {<<"inCtx", inputContext>>} ELSE {})
    \cup (IF outputContext # 0 THEN {<<"outCtx", outputContext>>} ELSE {})
    \cup (IF videoInterval # 0 THEN {<<"timer", videoInterval>>} ELSE {})

disconnect ==
    /\ isConnected' = FALSE
    /\ res' = [r \in Resources |->
                 IF r \in ReleasedByDisconnect THEN "released" ELSE res[r]]
    /\ releases' = [r \in Resources |->
                 IF r \in ReleasedByDisconnect THEN releases[r] + 1 ELSE releases[r]]
    /\ inputContext' = 0
    /\ outputContext' = 0
    /\ tornDown' = TRUE

\* the caller invokes disconnect()
Disconnect ==
    /\ nDisc < budget.disconnects
    /\ disconnect
    /\ explicitDisc' = TRUE
    /\ justDisc' = TRUE
    /\ nDisc' = nDisc + 1
    /\ UNCHANGED <<apiKey, budget, aux, lastMsg, uiScreenSharing, session, inputSource, processor, nextStartTime,
                   videoInterval, isScreenSharing, call, transport, promise,
                   clock, obs, nMsgs, nTicks, nStart>>

\* ---- connect() ----------------------------------------------------------
\* entry of connect() up to the first await (getUserMedia)
ConnectCall ==
    /\ pc \in {"idle", "done", "failed"}
    /\ epoch < budget.connects
    /\ epoch' = epoch + 1
    /\ tornDown' = FALSE /\ explicitDisc' = FALSE /\ justDisc' = FALSE
    /\ IF ~apiKey
       THEN /\ pc' = "failed" /\ failCause' = "apikey"
            /\ errors' = [errors EXCEPT ![epoch'] = @ + 1]
            /\ UNCHANGED <<inputContext, outputContext, res, clock>>
       ELSE /\ pc' = "awaitMic" /\ failCause' = "none"
            /\ inputContext' = epoch' /\ outputContext' = epoch'
            /\ res' = [res EXCEPT ![<<"inCtx", epoch'>>] = "live",
                                  ![<<"outCtx", epoch'>>] = "live"]
            /\ clock' = 0
            /\ UNCHANGED errors
    /\ UNCHANGED <<apiKey, budget, aux, lastMsg, uiScreenSharing, session, inputSource, processor, nextStartTime,
                   isConnected, videoInterval, isScreenSharing, releases,
                   transport, promise, started, sends, speaking, lateCallbacks,
                   raised, nDisc, nMsgs, nTicks, nStart>>

\* variant: the capture graph is built as soon as the microphone is granted
MicGrantedCaptureAttached ==
    /\ pc = "awaitMic"
    /\ res' = [res EXCEPT ![<<"mic", epoch>>] = "live",
                          ![<<"source", epoch>>] = "live",
                          ![<<"processor", epoch>>] = "live"]
    /\ inputSource' = epoch /\ processor' = epoch
    /\ transport' = [transport EXCEPT ![epoch] = "connecting"]
    /\ promise' = [promise EXCEPT ![epoch] = "pending"]
    /\ pc' = "awaitSession"
    /\ justDisc' = FALSE
    /\ UNCHANGED <<apiKey, budget, aux, lastMsg, uiScreenSharing, session, inputContext,
                   outputContext, nextStartTime, isConnected, videoInterval,
                   isScreenSharing, epoch, failCause, releases, clock, obs,
                   tornDown, explicitDisc, nDisc, nMsgs, nTicks, nStart>>

\* getUserMedia resolves; live.connect() is called, connect() awaits the session
MicGranted ==
    /\ pc = "awaitMic"
    /\ res' = [res EXCEPT ![<<"mic", epoch>>] = "live"]
    /\ transport' = [transport EXCEPT ![epoch] = "connecting"]
    /\ promise' = [promise EXCEPT ![epoch] = "pending"]
    /\ pc' = "awaitSession"
    /\ justDisc' = FALSE
    /\ UNCHANGED <<apiKey, budget, aux, lastMsg, uiScreenSharing, fields, epoch, failCause, releases, clock, obs,
                   tornDown, explicitDisc, nDisc, nMsgs, nTicks, nStart>>

\* variant: live.connect() is called before the microphone is requested
MicDeniedAfterConnect ==
    /\ pc = "awaitMic"
    /\ pc' = "failed" /\ failCause' = "mic"
    /\ errors' = [errors EXCEPT ![epoch] = @ + 1]
    /\ lateCallbacks' = Late({"catch:onError"})
    /\ transport' = [transport EXCEPT ![epoch] = "connecting"]
    /\ promise' = [promise EXCEPT ![epoch] = "pending"]
    /\ justDisc' = FALSE
    /\ UNCHANGED <<apiKey, budget, aux, lastMsg, uiScreenSharing, fields, epoch, res, releases, clock, started,
                   sends, speaking, raised, tornDown, explicitDisc, nDisc,
                   nMsgs, nTicks, nStart>>

\* getUserMedia rejects (permission denied, no device): catch block
MicDenied ==
    /\ pc = "awaitMic"
    /\ pc' = "failed" /\ failCause' = "mic"
    /\ errors' = [errors EXCEPT ![epoch] = @ + 1]
    /\ lateCallbacks' = Late({"catch:onError"})
    /\ justDisc' = FALSE
    /\ UNCHANGED <<apiKey, budget, aux, lastMsg, uiScreenSharing, fields, epoch, env, started, sends, speaking, raised,
                   tornDown, explicitDisc, nDisc, nMsgs, nTicks, nStart>>

\* ---- transport callbacks of connect() number k --------------------------
\* onopen: marks the session connected and attaches the capture graph
OnOpen(k) ==
    /\ transport[k] = "connecting"
    /\ transport' = [transport EXCEPT ![k] = "open"]
    /\ isConnected' = TRUE
    /\ IF inputContext = 0
       THEN \* this.inputContext!.createMediaStreamSource: TypeError on null
            /\ raised' = raised \cup {[handler |-> "onopen", cause |-> "inputContext is null"]}
            /\ UNCHANGED <<inputSource, processor, res>>
       ELSE /\ inputSource' = k /\ processor' = k
            /\ res' = [res EXCEPT ![<<"source", k>>] = "live",
                                  ![<<"processor", k>>] = "live"]
            /\ UNCHANGED raised
    /\ justDisc' = FALSE
    /\ UNCHANGED <<apiKey, budget, aux, lastMsg, uiScreenSharing, session, inputContext, outputContext, nextStartTime,
                   videoInterval, isScreenSharing, call, releases, promise,
                   clock, started, sends, callbacks, tornDown, explicitDisc,
                   nDisc, nMsgs, nTicks, nStart>>

\* sendRealtimeInput called while the manager is torn down
LateSend(kind) == IF tornDown THEN lateSends \cup {kind} ELSE lateSends

\* the session promise resolves: connect() stores the session and returns;
\* the frames captured before the resolution are sent, in capture order
SessionResolve ==
    /\ pc = "awaitSession"
    /\ promise[epoch] = "pending"
    /\ transport[epoch] = "open"
    /\ promise' = [promise EXCEPT ![epoch] = "resolved"]
    /\ session' = epoch
    /\ pc' = "done"
    /\ audioSent' = [audioSent EXCEPT ![epoch] = @ \o pendingSends[epoch]]
    /\ lateSends' = IF pendingSends[epoch] # <<>> THEN LateSend("audio") ELSE lateSends
    /\ pendingSends' = [pendingSends EXCEPT ![epoch] = <<>>]
    /\ justDisc' = FALSE
    /\ UNCHANGED <<apiKey, budget, aux, lastMsg, uiScreenSharing, inputContext, outputContext, inputSource, processor,
                   nextStartTime, isConnected, videoInterval, isScreenSharing,
                   epoch, failCause, res, releases, transport, clock, started,
                   captured, videoSent, lastVideo, callbacks, raised, tornDown,
                   explicitDisc, nDisc, nMsgs, nTicks, nStart>>

\* the session promise rejects (handshake failure): catch block
SessionReject ==
    /\ pc = "awaitSession"
    /\ promise[epoch] = "pending"
    /\ transport[epoch] \in {"connecting", "errored", "closed"}
    /\ promise' = [promise EXCEPT ![epoch] = "rejected"]
    /\ transport' = [transport EXCEPT ![epoch] =
                        IF @ = "connecting" THEN "closed" ELSE @]
    /\ pc' = "failed" /\ failCause' = "handshake"
    /\ errors' = [errors EXCEPT ![epoch] = @ + 1]
    /\ lateCallbacks' = Late({"catch:onError"})
    /\ justDisc' = FALSE
    /\ UNCHANGED <<apiKey, budget, aux, lastMsg, uiScreenSharing, fields, epoch, res, releases, clock, started, sends,
                   speaking, raised, tornDown, explicitDisc, nDisc, nMsgs,
                   nTicks, nStart>>

\* onmessage: an audio part is played, a turn-complete flag is reported
OnMessage(k, p, turnComplete) ==
    /\ transport[k] = "open"
    /\ nMsgs < budget.msgs
    /\ p # NoAudio \/ turnComplete
    /\ nMsgs' = nMsgs + 1
    /\ lastMsg' = [audio |-> Class(p), turnComplete |-> turnComplete]
    /\ LET plays == p # NoAudio /\ outputContext # 0
           throws == plays /\ ~Decodes(p)
           done == turnComplete /\ ~throws
       IN  /\ speaking' = IF done THEN "false" ELSE IF plays THEN "true" ELSE speaking
           /\ lateCallbacks' = IF plays \/ done THEN Late({"onAudioData"})
                               ELSE lateCallbacks
           /\ IF plays /\ ~throws
              THEN /\ started' = Append(started, Scheduled(p))
                   /\ nextStartTime' = Scheduled(p).next
              ELSE UNCHANGED <<started, nextStartTime>>
           /\ raised' = IF throws
                        THEN raised \cup {[handler |-> "onmessage", cause |-> "decode"]}
                        ELSE raised
    /\ justDisc' = FALSE
    /\ UNCHANGED <<apiKey, budget, aux, uiScreenSharing, session, inputContext, outputContext,
                   inputSource, processor, isConnected, videoInterval, isScreenSharing,
                   call, env, sends, errors, tornDown, explicitDisc, nDisc,
                   nTicks, nStart>>

\* onclose: disconnect()
OnClose(k) ==
    /\ transport[k] \in {"connecting", "open", "errored"}
    /\ transport' = [transport EXCEPT ![k] = "closed"]
    /\ disconnect
    /\ justDisc' = FALSE
    /\ UNCHANGED <<apiKey, budget, aux, lastMsg, uiScreenSharing, session, inputSource, processor, nextStartTime,
                   videoInterval, isScreenSharing, call, promise, clock, obs,
                   explicitDisc, nDisc, nMsgs, nTicks, nStart>>

\* onerror: onError("Connection interrupted."), then disconnect()
OnError(k) ==
    /\ transport[k] \in {"connecting", "open"}
    /\ transport' = [transport EXCEPT ![k] = "errored"]
    /\ errors' = [errors EXCEPT ![k] = @ + 1]
    /\ lateCallbacks' = Late({"onError"})
    /\ disconnect
    /\ justDisc' = FALSE
    /\ UNCHANGED <<apiKey, budget, aux, lastMsg, uiScreenSharing, session, inputSource, processor, nextStartTime,
                   videoInterval, isScreenSharing, call, promise, clock,
                   started, sends, speaking, raised, explicitDisc, nDisc,
                   nMsgs, nTicks, nStart>>

\* variant: the frame is sent through this.session, which is still null while
\* the session promise is pending
OnAudioProcessNoQueue(k) ==
    /\ res[<<"processor", k>>] = "live" /\ res[<<"source", k>>] = "live"
    /\ res[<<"inCtx", k>>] = "live" /\ res[<<"mic", k>>] = "live"
    /\ captured < MaxFrames
    /\ captured' = captured + 1
    /\ IF promise[k] = "resolved"
       THEN /\ audioSent' = [audioSent EXCEPT ![k] = Append(@, captured')]
            /\ lateSends' = LateSend("audio")
       ELSE UNCHANGED <<audioSent, lateSends>>
    /\ justDisc' = FALSE
    /\ UNCHANGED <<apiKey, budget, aux, lastMsg, uiScreenSharing, fields, call, env, started,
                   pendingSends, videoSent, lastVideo, callbacks, raised, tornDown,
                   explicitDisc, nDisc, nMsgs, nTicks, nStart>>

\* ---- capture: onaudioprocess of the processor created by connect() k ----
OnAudioProcess(k) ==
    /\ res[<<"processor", k>>] = "live" /\ res[<<"source", k>>] = "live"
    /\ res[<<"inCtx", k>>] = "live" /\ res[<<"mic", k>>] = "live"
    /\ captured < MaxFrames
    /\ captured' = captured + 1
    /\ CASE promise[k] = "resolved" ->
              /\ audioSent' = [audioSent EXCEPT ![k] = Append(@, captured')]
              /\ lateSends' = LateSend("audio")
              /\ UNCHANGED pendingSends
         [] promise[k] = "pending" ->
              /\ pendingSends' = [pendingSends EXCEPT ![k] = Append(@, captured')]
              /\ UNCHANGED <<audioSent, lateSends>>
         [] OTHER -> UNCHANGED <<audioSent, lateSends, pendingSends>>
    /\ justDisc' = FALSE
    /\ UNCHANGED <<apiKey, budget, aux, lastMsg, uiScreenSharing, fields, call, env, started, videoSent, lastVideo,
                   callbacks, raised, tornDown, explicitDisc, nDisc, nMsgs,
                   nTicks, nStart>>

\* ---- video ----------------------------------------------------------------
\* variant: changing the mode stops the running video timer
SetScreenShareModeRestart(enabled) ==
    /\ isScreenSharing' = enabled
    /\ videoInterval' = 0
    /\ res' = [r \in Resources |->
                 IF videoInterval # 0 /\ r = <<"timer", videoInterval>>
                 THEN "released" ELSE res[r]]
    /\ justDisc' = FALSE
    /\ UNCHANGED <<apiKey, budget, aux, lastMsg, uiScreenSharing, session, inputContext,
                   outputContext, inputSource, processor, nextStartTime, isConnected,
                   call, releases, transport, promise, clock, obs, tornDown,
                   explicitDisc, nDisc, nMsgs, nTicks, nStart>>

\* setScreenShareMode(enabled): this.isScreenSharing = enabled
SetScreenShareMode(enabled) ==
    /\ isScreenSharing' = enabled
    /\ justDisc' = FALSE
    /\ UNCHANGED <<apiKey, budget, aux, lastMsg, uiScreenSharing, session, inputContext, outputContext, inputSource,
                   processor, nextStartTime, isConnected, videoInterval, call,
                   env, obs, tornDown, explicitDisc, nDisc, nMsgs, nTicks, nStart>>

StartVideoStreaming ==
    /\ nStart < MaxTimers
    /\ nStart' = nStart + 1
    /\ IF session = 0
       THEN UNCHANGED <<videoInterval, res>>
       ELSE LET t == CHOOSE i \in Timers :
                        /\ res[<<"timer", i>>] = "none"
                        /\ \A j \in Timers : j < i => res[<<"timer", j>>] # "none"
            IN  /\ videoInterval' = t
                /\ res' = [res EXCEPT ![<<"timer", t>>] = "live"]
    /\ justDisc' = FALSE
    /\ UNCHANGED <<apiKey, budget, aux, lastMsg, uiScreenSharing, session, inputContext, outputContext, inputSource,
                   processor, nextStartTime, isConnected, isScreenSharing, call,
                   releases, transport, promise, clock, obs, tornDown,
                   explicitDisc, nDisc, nMsgs, nTicks>>

\* variant: the scale of the camera whatever the mode
ScaleOfCamera == CameraScale

\* const scale = this.isScreenSharing ? 0.5 : 0.25
Scale == IF isScreenSharing THEN ScreenScale ELSE CameraScale

\* const quality = this.isScreenSharing ? 0.7 : 0.5
Quality == IF isScreenSharing THEN ScreenQuality ELSE CameraQuality

\* one firing of the interval callback of timer t; hasFrame: the video element
\* holds a frame it has not delivered before (the callback never looks)
VideoTick(t, hasFrame) ==
    /\ res[<<"timer", t>>] = "live"
    /\ nTicks < MaxVideoTicks
    /\ nTicks' = nTicks + 1
    /\ IF ~isConnected
       THEN UNCHANGED <<videoSent, lastVideo, lateSends>>
       ELSE /\ videoSent' = videoSent + 1
            /\ lastVideo' = [scale |-> Scale, quality |-> Quality, fresh |-> hasFrame,
                             prevScale |-> lastVideo.scale]
            /\ lateSends' = LateSend("video")
    /\ justDisc' = FALSE
    /\ UNCHANGED <<apiKey, budget, aux, lastMsg, uiScreenSharing, fields, call, env, started, captured, pendingSends,
                   audioSent, callbacks, raised, tornDown, explicitDisc, nDisc,
                   nMsgs, nStart>>

\* ---- onmessage as an asynchronous function ---------------------------------
\* OnMessage above takes the handler as one step.  Here it is cut at its
\* awaits: the part up to 'await this.playAudioChunk(...)' runs in the task
\* that delivers the message, the rest (the turnComplete test) in a
\* continuation that runs later; continuations run in the order in which
\* they were suspended.

\* variant: the decoding is awaited inside playAudioChunk (decodeAudioData),
\* after the clock and nextStartTime were read
ScheduleSuspendsOnDecode == TRUE

\* playAudioChunk contains no await: called from onmessage it decodes, reads
\* the clock and nextStartTime and writes nextStartTime before it returns
ScheduleSuspends == FALSE

\* the handler of message number nMsgs + 1 up to its first suspension
OnMessageStart(k, p, turnComplete) ==
    /\ transport[k] = "open"
    /\ nMsgs < budget.msgs
    /\ p # NoAudio \/ turnComplete
    /\ nMsgs' = nMsgs + 1
    /\ lastMsg' = [audio |-> Class(p), turnComplete |-> turnComplete]
    /\ LET plays == p # NoAudio /\ outputContext # 0
           throws == plays /\ ~Decodes(p)
           chunk == Scheduled(p) @@ [msg |-> nMsgs']
       IN  /\ speaking' = IF plays THEN "true"
                          ELSE IF turnComplete THEN "false" ELSE speaking
           /\ lateCallbacks' = Late({"onAudioData"})
           /\ raised' = IF throws
                        THEN raised \cup {[handler |-> "onmessage", cause |-> "decode"]}
                        ELSE raised
           /\ IF plays /\ ~throws /\ ~ScheduleSuspends
              THEN /\ started' = Append(started, chunk)
                   /\ nextStartTime' = chunk.next
              ELSE UNCHANGED <<started, nextStartTime>>
           /\ handlers' =
                 IF ~plays THEN handlers
                 ELSE Append(handlers,
                             [stage |-> IF throws THEN "threw"
                                        ELSE IF ScheduleSuspends THEN "schedule"
                                        ELSE "turn",
                              turnComplete |-> turnComplete, chunk |-> chunk])
    /\ justDisc' = FALSE
    /\ UNCHANGED <<apiKey, budget, uiScreenSharing, conv, gen, session, inputContext,
                   outputContext, inputSource, processor, isConnected, videoInterval,
                   isScreenSharing, call, env, sends, errors, tornDown, explicitDisc,
                   nDisc, nTicks, nStart>>

\* the continuation of the handler suspended first
OnMessageResume ==
    /\ handlers # <<>>
    /\ LET h == Head(handlers)
       IN  CASE h.stage = "schedule" ->
                  \* source.start(startTime); this.nextStartTime = startTime + duration
                  /\ started' = Append(started, h.chunk)
                  /\ nextStartTime' = h.chunk.next
                  /\ handlers' = <<[h EXCEPT !.stage = "turn"]>> \o Tail(handlers)
                  /\ UNCHANGED <<speaking, lateCallbacks>>
             [] h.stage = "turn" ->
                  /\ speaking' = IF h.turnComplete THEN "false" ELSE speaking
                  /\ lateCallbacks' = IF h.turnComplete THEN Late({"onAudioData"})
                                      ELSE lateCallbacks
                  /\ handlers' = Tail(handlers)
                  /\ UNCHANGED <<started, nextStartTime>>
             [] OTHER ->
                  \* the await rethrows the decode failure: the handler ends
                  /\ handlers' = Tail(handlers)
                  /\ UNCHANGED <<started, nextStartTime, speaking, lateCallbacks>>
    /\ justDisc' = FALSE
    /\ UNCHANGED <<apiKey, budget, uiScreenSharing, conv, gen, lastMsg, session,
                   inputContext, outputContext, inputSource, processor, isConnected,
                   videoInterval, isScreenSharing, call, env, sends, errors, raised,
                   tornDown, explicitDisc, nDisc, nMsgs, nTicks, nStart>>

\* ---- founder video (ChatInterface) -----------------------------------------
\* autoVideo, veoDisabled and isLoading are React state: a handler reads the
\* values of the render that created it, also after its awaits and in the
\* timer callbacks it registered, while the setters change the value the
\* next render sees.  gen.reqs[r].auto is the shouldAutoVideo that the
\* handleSend of message r computed when it was called.

\* checkApiKeyAndGenerateVideo passes its guard and calls generateFounderVideo;
\* automatic = called by handleSend or by the retry timer
Generating(r, retryCount, fresh, automatic) ==
    [gen EXCEPT !.reqs[r].stage = "generating",
                !.reqs[r].retryCount = retryCount,
                !.reqs[r].attempts = IF fresh THEN 1 ELSE @ + 1,
                !.startedLocked = @ \/ (automatic /\ gen.veoDisabled)]

GenOnly == UNCHANGED <<apiKey, budget, fields, call, env, obs, lastMsg,
                       uiScreenSharing, conv, handlers, life>>

\* the Auto Video pill: unlocks when video is disabled, else flips autoVideo
ToggleAutoVideo(unlocks) ==
    /\ gen' = IF gen.veoDisabled
              THEN IF unlocks
                   THEN [gen EXCEPT !.veoDisabled = FALSE, !.autoVideo = TRUE]
                   ELSE gen
              ELSE [gen EXCEPT !.autoVideo = ~@]
    /\ GenOnly

\* forceRefreshKey from the error card of a message
ForceRefreshKey(unlocks) ==
    /\ \E r \in Requests : gen.reqs[r].stage = "failed"
    /\ gen' = IF unlocks
              THEN [gen EXCEPT !.veoDisabled = FALSE, !.autoVideo = TRUE]
              ELSE gen
    /\ GenOnly

\* handleSend up to its first await (founder mode, avatar configured)
HandleSend(r) ==
    /\ gen.reqs[r].stage = "idle"
    /\ \A q \in Requests : q < r => gen.reqs[q].stage # "idle"
    /\ ~gen.isLoading
    /\ gen' = [gen EXCEPT !.isLoading = TRUE,
                          !.reqs[r].stage = "sending",
                          !.reqs[r].auto = gen.autoVideo /\ ~gen.veoDisabled]
    /\ GenOnly

\* the rest of handleSend after the reply was streamed and spoken
SendDone(r) ==
    /\ gen.reqs[r].stage = "sending"
    /\ gen' = IF gen.reqs[r].auto
              THEN [Generating(r, 0, TRUE, TRUE) EXCEPT !.isLoading = FALSE]
              ELSE [gen EXCEPT !.isLoading = FALSE, !.reqs[r].stage = "done"]
    /\ GenOnly

GenSucceeds(r) ==
    /\ gen.reqs[r].stage = "generating"
    /\ gen' = [gen EXCEPT !.reqs[r].stage = "done"]
    /\ GenOnly

\* retryCount === 0
Retries(retryCount) == retryCount = 0

\* generateFounderVideo rejects; keyChosen: openSelectKey resolves
GenFails(r, quota, keyChosen) ==
    /\ gen.reqs[r].stage = "generating"
    /\ gen' = IF quota /\ Retries(gen.reqs[r].retryCount) /\ gen.aistudio /\ keyChosen
              THEN [gen EXCEPT !.reqs[r].stage = "retry"]
              ELSE IF quota
              THEN [gen EXCEPT !.reqs[r].stage = "failed",
                               !.autoVideo = FALSE, !.veoDisabled = TRUE]
              ELSE [gen EXCEPT !.reqs[r].stage = "failed"]
    /\ GenOnly

\* the timer set after openSelectKey calls checkApiKeyAndGenerateVideo again
RetryFires(r) ==
    /\ gen.reqs[r].stage = "retry"
    /\ gen' = Generating(r, gen.reqs[r].retryCount + 1, FALSE, TRUE)
    /\ GenOnly

\* the Retry button of a failed message
HandleRetryVideo(r, unlocks) ==
    /\ gen.reqs[r].stage = "failed"
    /\ gen' = IF gen.veoDisabled
              THEN \* forceRefreshKey(); the veoDisabled of this render is still set
                   IF unlocks
                   THEN [gen EXCEPT !.veoDisabled = FALSE, !.autoVideo = TRUE]
                   ELSE gen
              ELSE Generating(r, 0, TRUE, FALSE)
    /\ GenOnly

\* ---- the call UI (ChatInterface) ------------------------------------------
\* toggleScreenShare: swaps the stream shown in the <video> element that feeds
\* the video timer and flips the UI's isScreenSharing state
ToggleScreenShare ==
    /\ pc # "idle"
    /\ uiScreenSharing' = ~uiScreenSharing
    /\ justDisc' = FALSE
    /\ UNCHANGED <<apiKey, budget, aux, lastMsg, fields, call, env, obs, tornDown,
                   explicitDisc, nDisc, nMsgs, nTicks, nStart>>

\* onended of the shared track (the browser's "stop sharing"): back to the webcam
ShareEnded ==
    /\ uiScreenSharing
    /\ uiScreenSharing' = FALSE
    /\ justDisc' = FALSE
    /\ UNCHANGED <<apiKey, budget, aux, lastMsg, fields, call, env, obs, tornDown,
                   explicitDisc, nDisc, nMsgs, nTicks, nStart>>

\* ---- the output context's clock advances --------------------------------
ClockTick ==
    /\ outputContext # 0
    /\ \E k \in Epochs : transport[k] = "open"
    /\ clock < budget.clock
    /\ clock' = clock + 1
    /\ justDisc' = FALSE
    /\ UNCHANGED <<apiKey, budget, aux, lastMsg, uiScreenSharing, fields, call, res, releases, transport, promise,
                   obs, tornDown, explicitDisc, nDisc, nMsgs, nTicks, nStart>>

Next ==
    \/ ConnectCall
    \/ MicGranted
    \/ MicDenied
    \/ \E k \in Epochs : OnOpen(k)
    \/ SessionResolve
    \/ SessionReject
    \/ \E k \in Epochs, p \in Payloads \cup {NoAudio}, tc \in BOOLEAN : OnMessage(k, p, tc)
    \/ \E k \in Epochs : OnClose(k)
    \/ \E k \in Epochs : OnError(k)
    \/ \E k \in Epochs : OnAudioProcess(k)
    \/ Disconnect
    \/ \E enabled \in BOOLEAN : SetScreenShareMode(enabled)
    \/ StartVideoStreaming
    \/ \E t \in Timers, hasFrame \in BOOLEAN : VideoTick(t, hasFrame)
    \/ ClockTick

Spec == Init /\ [][Next]_vars

\* the operations that read or write the playback schedule (output context,
\* clock, nextStartTime) or decide when chunks can arrive.  onerror acts on
\* these like onclose, and a rejected session promise like a failed
\* getUserMedia; capture and video do not touch them.
NextPlayback ==
    \/ ConnectCall
    \/ MicGranted
    \/ MicDenied
    \/ \E k \in Epochs : OnOpen(k)
    \/ SessionResolve
    \/ \E k \in Epochs, p \in Payloads \cup {NoAudio}, tc \in BOOLEAN : OnMessage(k, p, tc)
    \/ \E k \in Epochs : OnClose(k)
    \/ Disconnect
    \/ ClockTick

SpecPlayback == InitPlayback /\ [][NextPlayback]_vars

\* calls without server messages: the capture and the video path
InitMedia ==
    /\ Constructed /\ Idle
    /\ budget = [connects |-> MaxConnects, disconnects |-> MaxDisconnects,
                 msgs |-> 0, clock |-> 0]

\* the microphone capture path: calls that the caller ends at most once.
\* onerror acts on the capture graph and the session promise like onclose.
InitCapture ==
    /\ Constructed /\ Idle
    /\ budget = [connects |-> MaxConnects, disconnects |-> 1, msgs |-> 0, clock |-> 0]

NextCapture ==
    \/ ConnectCall
    \/ MicGranted
    \/ \E k \in Epochs : OnOpen(k)
    \/ SessionResolve
    \/ SessionReject
    \/ \E k \in Epochs : OnAudioProcess(k)
    \/ \E k \in Epochs : OnClose(k)
    \/ Disconnect

SpecCapture == InitCapture /\ [][NextCapture]_vars

\* calls in which the caller drives the video pipeline through the
\* manager's own interface
NextVideo ==
    \/ ConnectCall
    \/ MicGranted
    \/ \E k \in Epochs : OnOpen(k)
    \/ SessionResolve
    \/ StartVideoStreaming
    \/ \E enabled \in BOOLEAN : SetScreenShareMode(enabled)
    \/ \E t \in Timers, hasFrame \in BOOLEAN : VideoTick(t, hasFrame)
    \/ Disconnect

SpecVideo == InitMedia /\ [][NextVideo]_vars

\* calls driven by the call UI: what ChatInterface does with the manager
\* (startLiveCall, toggleScreenShare, endLiveCall)
NextCall ==
    \/ ConnectCall
    \/ MicGranted
    \/ \E k \in Epochs : OnOpen(k)
    \/ SessionResolve
    \/ StartVideoStreaming
    \/ ToggleScreenShare
    \/ ShareEnded
    \/ \E t \in Timers, hasFrame \in BOOLEAN : VideoTick(t, hasFrame)
    \/ Disconnect

SpecCall == InitMedia /\ [][NextCall]_vars

\* the converters on their own: a sample sequence or a byte sequence is
\* encoded as the capture path does and decoded as the playback path does
InitConvert ==
    /\ Constructed /\ handlers = <<>> /\ gen = NoGen
    /\ budget = [connects |-> 0, disconnects |-> 0, msgs |-> 0, clock |-> 0]
    /\ conv \in SampleJobs \cup ByteJobs

NextConvert ==
    \/ PcmToB64
    \/ EncodeBytes
    \/ DecodeChunk

SpecConvert == InitConvert /\ [][NextConvert]_vars

\* one session in which the message handlers are cut at their awaits
InitHandlers ==
    /\ Constructed /\ Idle
    /\ budget = [connects |-> 1, disconnects |-> 0, msgs |-> MaxMsgs, clock |-> MaxClock]

NextHandlers ==
    \/ ConnectCall
    \/ MicGranted
    \/ \E k \in Epochs : OnOpen(k)
    \/ \E k \in Epochs, p \in Payloads \cup {NoAudio}, tc \in BOOLEAN :
          OnMessageStart(k, p, tc)
    \/ OnMessageResume
    \/ ClockTick

SpecHandlers == InitHandlers /\ [][NextHandlers]_vars

\* the chat with founder mode on: messages are sent and their videos generated
InitVideoGen ==
    /\ Constructed /\ conv = NoConv /\ handlers = <<>>
    /\ budget = [connects |-> 0, disconnects |-> 0, msgs |-> 0, clock |-> 0]
    /\ \E a \in BOOLEAN : gen = [NoGen EXCEPT !.aistudio = a]

NextVideoGen ==
    \/ \E u \in BOOLEAN : ToggleAutoVideo(u)
    \/ \E u \in BOOLEAN : ForceRefreshKey(u)
    \/ \E r \in Requests : HandleSend(r)
    \/ \E r \in Requests : SendDone(r)
    \/ \E r \in Requests : GenSucceeds(r)
    \/ \E r \in Requests, quota \in BOOLEAN, keyChosen \in BOOLEAN :
          GenFails(r, quota, keyChosen)
    \/ \E r \in Requests : RetryFires(r)
    \/ \E r \in Requests, u \in BOOLEAN : HandleRetryVideo(r, u)

SpecVideoGen == InitVideoGen /\ [][NextVideoGen]_vars

\* ---- types ----------------------------------------------------------------
TypeOK ==
    /\ session \in 0..MaxConnects /\ inputContext \in 0..MaxConnects
    /\ outputContext \in 0..MaxConnects
    /\ inputSource \in 0..MaxConnects /\ processor = inputSource
    /\ isConnected \in BOOLEAN /\ isScreenSharing \in BOOLEAN
    /\ videoInterval \in 0..MaxTimers
    /\ pc \in {"idle", "awaitMic", "awaitSession", "done", "failed"}
    /\ \A k \in Epochs : transport[k] \in {"none", "connecting", "open", "errored", "closed"}
    /\ \A r \in Resources : res[r] \in {"none", "live", "released"}
    /\ uiScreenSharing \in BOOLEAN
    /\ lastMsg \in [audio : {"none", "valid", "malformed"}, turnComplete : BOOLEAN]
    \* the capture graph of connect() k lives in the input context of connect() k
    /\ \A k \in Epochs : transport[k] = "connecting" => (k = epoch /\ inputContext \in {0, k})

\* ---- playback schedule ----------------------------------------------------
Chunks == 1..Len(started)

SameSession(i, j) == started[i].ctx = started[j].ctx

\* C1: within one session every chunk starts no earlier than its arrival, and
\* no earlier than the end of any chunk scheduled before it (start_{i+1} >=
\* start_i + d_i): starts are non-decreasing and no two buffers overlap.
C1_NoOverlap ==
    /\ \A i \in Chunks : started[i].start >= started[i].arrival
    /\ \A i, j \in Chunks :
         (i < j /\ SameSession(i, j))
            => started[j].start >= started[i].start + started[i].dur

\* a chunk that arrived after its predecessor had finished: a gap, no overlap
C1_Witness ==
    \E i \in Chunks :
        /\ i + 1 \in Chunks /\ SameSession(i, i + 1)
        /\ started[i + 1].arrival > started[i].start + started[i].dur
        /\ started[i + 1].start = started[i + 1].arrival

\* C2: a chunk scheduled while the clock is at or before nextStartTime starts
\* exactly where its predecessor of the same session ends (zero gap).
C2_Gapless ==
    \A i \in Chunks :
        (i + 1 \in Chunks /\ SameSession(i, i + 1)
           /\ started[i + 1].arrival <= started[i + 1].prev)
        => started[i + 1].start = started[i].start + started[i].dur

\* three chunks of one session, the last two queued behind their predecessor
C2_Witness ==
    /\ Len(started) >= 3
    /\ SameSession(1, 2) /\ SameSession(2, 3)
    /\ started[2].arrival < started[2].prev
    /\ started[3].arrival < started[3].prev
    /\ started[3].start = started[1].start + started[1].dur + started[2].dur

\* C3: every chunk is started at the larger of the clock and nextStartTime,
\* nextStartTime becomes that start plus the duration; the first chunk the
\* manager schedules starts at its arrival, the second at
\* max(arrival_2, start_1 + d_1).
C3_MaxRule ==
    /\ \A i \in Chunks :
         /\ started[i].start = (IF started[i].arrival >= started[i].prev
                                THEN started[i].arrival ELSE started[i].prev)
         /\ started[i].next = started[i].start + started[i].dur
    /\ started # <<>> =>
         nextStartTime = started[Len(started)].start + started[Len(started)].dur
    /\ started # <<>> => started[1].start = started[1].arrival
    /\ Len(started) >= 2 =>
         started[2].start =
            (IF started[2].arrival >= started[1].start + started[1].dur
             THEN started[2].arrival ELSE started[1].start + started[1].dur)

\* the first chunk arrives at a clock value past zero, the second while the
\* first is still playing
C3_Witness ==
    /\ Len(started) >= 2
    /\ started[1].arrival > 0
    /\ started[2].arrival < started[1].start + started[1].dur
    /\ started[2].start = started[1].start + started[1].dur

\* ---- server messages ------------------------------------------------------
\* a step of onmessage that received an audio chunk while an output context exists
MalformedChunkStep ==
    nMsgs' = nMsgs + 1 /\ lastMsg'.audio = "malformed" /\ outputContext # 0

TurnCompleteStep == nMsgs' = nMsgs + 1 /\ lastMsg'.turnComplete

\* C11: a chunk whose decoding fails (invalid text, odd number of bytes) is
\* dropped, nextStartTime keeps its value, and the caller is told of the
\* failure through one of its callbacks.
C11_DecodeFailureSignalled ==
    [][MalformedChunkStep
         => (/\ started' = started /\ nextStartTime' = nextStartTime
             /\ \E k \in Epochs : errors'[k] > errors[k])]_vars

\* C12: a malformed chunk leaves the session as it was (connected flag,
\* transport, contexts, clock, schedule), and every chunk is scheduled from
\* the nextStartTime its scheduled predecessor left, whatever was dropped in
\* between.
C12_Chain ==
    \A i \in Chunks :
        started[i].prev = (IF i = 1 THEN 0 ELSE started[i - 1].next)

C12_MalformedChunkHarmless ==
    /\ []C12_Chain
    /\ [][MalformedChunkStep
            => (/\ isConnected' = isConnected /\ transport' = transport
                /\ session' = session /\ outputContext' = outputContext
                /\ res' = res /\ clock' = clock
                /\ started' = started /\ nextStartTime' = nextStartTime)]_vars

\* the first message was a malformed chunk, the second a valid one that was
\* scheduled as the first chunk of a connected session
C12_Witness ==
    /\ nMsgs = 2 /\ lastMsg.audio = "valid"
    /\ [handler |-> "onmessage", cause |-> "decode"] \in raised
    /\ Len(started) = 1 /\ started[1].ctx = outputContext
    /\ started[1].start = started[1].arrival
    /\ isConnected

\* C13: a message with turnComplete reports onAudioData(false) and leaves the
\* chunks already scheduled, the connection state and (when the message holds
\* no audio) nextStartTime as they were.
C13_TurnCompleteOnlyReports ==
    [][TurnCompleteStep
         => (/\ speaking' = "false"
             /\ isConnected' = isConnected /\ transport' = transport
             /\ SubSeq(started', 1, Len(started)) = started
             /\ lastMsg'.audio = "none"
                  => (started' = started /\ nextStartTime' = nextStartTime))]_vars

\* ---- transport failures ---------------------------------------------------
\* the transport of connect() k reports an error or a close through its
\* callbacks while the manager is connecting or active
TransportFails(k) ==
    /\ transport[k] \in {"connecting", "open"}
    /\ transport'[k] \in {"errored", "closed"}
    /\ pc' = pc
    /\ ~tornDown

\* C14: when the transport fails while connecting or active, the capture
\* graph, the video timer and both audio contexts are released, the manager
\* is not connected, and onError is called.
C14_FailureTornDownAndSurfaced ==
    [][\A k \in Epochs :
          TransportFails(k)
             => (/\ ~isConnected'
                 /\ \A r \in Resources : r[1] # "mic" => res'[r] # "live"
                 /\ errors'[k] > errors[k])]_vars

\* ---- capture --------------------------------------------------------------
Sent(k) == {audioSent[k][i] : i \in 1..Len(audioSent[k])}

Held(k) == {pendingSends[k][i] : i \in 1..Len(pendingSends[k])}

\* the capture graph of connect() k exists only once its transport has
\* reported open
CaptureAfterOpen ==
    \A k \in Epochs :
        (res[<<"source", k>>] # "none" \/ res[<<"processor", k>>] # "none")
           => transport[k] \notin {"none", "connecting"}

\* C15 as stated: the capture graph is attached only after the open
\* acknowledgement, and no captured frame is ever held back.
C15_NoFrameHeldBack ==
    /\ CaptureAfterOpen
    /\ \A k \in Epochs : pendingSends[k] = <<>>

\* C15, amended: the capture graph is attached only after the open
\* acknowledgement; a frame is held back only until the session promise of
\* its call settles: held frames are sent in capture order when it resolves
\* and never when it rejects.
C15_HeldUntilSessionSettles ==
    /\ [](/\ CaptureAfterOpen
          /\ \A k \in Epochs :
                pendingSends[k] # <<>> => promise[k] \in {"pending", "rejected"})
    /\ [][\A k \in Epochs :
            /\ (promise[k] = "pending" /\ promise'[k] = "resolved")
                  => (/\ audioSent' = [audioSent EXCEPT ![k] = @ \o pendingSends[k]]
                      /\ pendingSends'[k] = <<>>)
            /\ (promise[k] = "pending" /\ promise'[k] = "rejected")
                  => audioSent' = audioSent]_vars

\* a frame captured after onopen is held while the session promise is pending
C15_Witness ==
    \E k \in Epochs :
        /\ transport[k] = "open" /\ promise[k] = "pending"
        /\ res[<<"processor", k>>] = "live"
        /\ pendingSends[k] # <<>>

\* C16: the frames sent on a session are in capture order without
\* repetition, no frame goes to two sessions, and unless a session promise
\* was rejected every captured frame has been sent or is held for a session
\* promise that is still pending; once the promise has resolved nothing is
\* held.
C16_EachFrameSentOnceInOrder ==
    /\ \A k \in Epochs : \A i, j \in 1..Len(audioSent[k]) :
          i < j => audioSent[k][i] < audioSent[k][j]
    /\ \A k, m \in Epochs : k # m => Sent(k) \cap Sent(m) = {}
    /\ \A k \in Epochs : promise[k] = "resolved" => pendingSends[k] = <<>>
    /\ (\A k \in Epochs : promise[k] # "rejected")
          => \A f \in 1..captured :
                \E k \in Epochs :
                    \/ f \in Sent(k) /\ f \notin Held(k)
                    \/ f \in Held(k) /\ f \notin Sent(k) /\ promise[k] = "pending"

\* two frames captured in an active session, both sent, in capture order
C16_Witness ==
    /\ isConnected /\ session # 0 /\ promise[session] = "resolved"
    /\ captured = 2 /\ audioSent[session] = <<1, 2>>

\* ---- video frames ---------------------------------------------------------
\* a tick of the video timer that sent a frame
FrameSentStep == videoSent' = videoSent + 1

\* C17: every frame is sent with the scale and quality of the mode the
\* manager is in at that tick (camera 25% / 50%, screen share 50% / 70%), so
\* a frame sent in screen-share mode after a camera frame has a strictly
\* larger scale and quality.
C17_SettingsFromModeAtTick ==
    /\ [][FrameSentStep
            => (/\ lastVideo'.scale = (IF isScreenSharing THEN 50 ELSE 25)
                /\ lastVideo'.quality = (IF isScreenSharing THEN 70 ELSE 50))]_vars
    /\ [][(FrameSentStep /\ videoSent >= 1 /\ lastVideo.scale = 25
             /\ isScreenSharing)
            => (/\ lastVideo'.scale > lastVideo.scale
                /\ lastVideo'.quality > lastVideo.quality)]_vars

\* a frame sent in camera mode was followed by one sent in screen-share mode
C17_Witness ==
    /\ videoSent >= 2 /\ isScreenSharing
    /\ lastVideo.prevScale = CameraScale
    /\ lastVideo.scale = ScreenScale /\ lastVideo.quality = ScreenQuality

\* C18: a step that changes the mode flag leaves the video timer, every
\* resource, the connection state, the playback schedule and the frames sent
\* untouched, and every later frame is sent with the quality of the mode set.
C18_OnlyTheFlagChanges ==
    /\ [][isScreenSharing' # isScreenSharing
            => (/\ videoInterval' = videoInterval /\ res' = res
                /\ releases' = releases
                /\ isConnected' = isConnected /\ session' = session
                /\ transport' = transport /\ promise' = promise
                /\ nextStartTime' = nextStartTime /\ started' = started
                /\ videoSent' = videoSent /\ lastVideo' = lastVideo
                /\ nTicks' = nTicks)]_vars
    /\ [][FrameSentStep
            => (lastVideo'.quality = ScreenQuality <=> isScreenSharing)]_vars

\* the only timer ever started has sent a frame in one mode and then, the
\* mode having been switched while it ran, a frame in the other mode
C18_Witness ==
    /\ nStart = 1 /\ videoInterval # 0 /\ res[<<"timer", videoInterval>>] = "live"
    /\ \A r \in Resources : r[1] = "timer" => releases[r] = 0
    /\ isConnected /\ videoSent = 2
    /\ lastVideo.prevScale # lastVideo.scale
    /\ lastVideo.scale = Scale /\ lastVideo.quality = Quality

C20_NoSendWithoutNewFrame == videoSent > 0 => lastVideo.fresh

\* ---- ownership ------------------------------------------------------------
LiveProcessors == {k \in Epochs : res[<<"processor", k>>] = "live"}

LiveTimers == {t \in Timers : res[<<"timer", t>>] = "live"}

\* C21: at most one capture graph and at most one video timer are live, and
\* a live one is the one the manager's fields refer to.
C21_AtMostOnePipelineAndTimer ==
    /\ Cardinality(LiveProcessors) <= 1 /\ Cardinality(LiveTimers) <= 1
    /\ \A k \in LiveProcessors : processor = k
    /\ \A t \in LiveTimers : videoInterval = t

\* C22: while the manager is torn down and connect() has not been called
\* again, it does not become connected and no transport reports open.
C22_NoRevivalAfterTeardown ==
    [][(tornDown /\ epoch' = epoch)
          => (/\ ~isConnected'
              /\ \A k \in Epochs : transport'[k] = "open" => transport[k] = "open")]_vars

\* ---- sessions after the first ---------------------------------------------
\* a step that schedules the first chunk of an open session later than the
\* first, every earlier output context having been released
FirstChunkAfterReconnect ==
    /\ Len(started') = Len(started) + 1
    /\ LET c == started'[Len(started')].ctx
       IN  /\ c > 1 /\ transport[c] = "open"
           /\ \A i \in Chunks : started[i].ctx # c
           /\ \A j \in 1..(c - 1) : res[<<"outCtx", j>>] # "live"

\* C27: the first chunk of a session that follows a torn-down session starts
\* at its arrival time on the new output clock.
C27_FreshScheduleOnReconnect ==
    [][FirstChunkAfterReconnect
         => started'[Len(started')].start = started'[Len(started')].arrival]_vars

\* C28: a message whose audio chunk is not scheduled (decode failure, no
\* output context) does not make the manager report onAudioData(true).
C28_SpeakingOnlyWhenScheduled ==
    [][(nMsgs' = nMsgs + 1 /\ lastMsg'.audio # "none" /\ started' = started)
          => (speaking' = "true" => speaking = "true")]_vars

\* C29: onError is invoked at most once for one connect() call and its
\* transport.
C29_ErrorSurfacedOnce == \A k \in Epochs : errors[k] <= 1

\* ---- conversion -----------------------------------------------------------
\* a sample sequence that has been encoded and decoded again
RoundTripped == conv.kind = "samples" /\ conv.stage = "floats"

InRange(n) == -SampleSteps <= n /\ n <= SampleSteps

\* |n / SampleSteps - v / PcmScale|, in units of 1 / (SampleSteps * PcmScale)
RoundTripError(i) == Abs(conv.samples[i] * PcmScale - conv.out[i] * SampleSteps)

\* C23 as stated: a sample in [-1, 1] comes back within 1/32768 of itself.
C23_WithinOneStep ==
    RoundTripped =>
        \A i \in 1..Len(conv.samples) :
            InRange(conv.samples[i]) => RoundTripError(i) <= SampleSteps

\* C23, amended: a sample in [-1, 1] comes back less than two quantization
\* steps (2/32768) from itself, as many samples as were sent.
C23_WithinTwoSteps ==
    RoundTripped =>
        /\ Len(conv.out) = Len(conv.samples)
        /\ \A i \in 1..Len(conv.samples) :
              InRange(conv.samples[i]) => RoundTripError(i) < 2 * SampleSteps

\* a sample in [-1, 1] that came back more than one step from itself
C23_Witness ==
    /\ RoundTripped
    /\ \E i \in 1..Len(conv.samples) :
          /\ InRange(conv.samples[i])
          /\ RoundTripError(i) > SampleSteps /\ RoundTripError(i) < 2 * SampleSteps

\* C24: the bytes decoded from a text are the bytes the text was made from.
C24_TextRoundTrip ==
    conv.stage \in {"floats", "threw"} => conv.back = conv.bytes

\* bytes that end in a padded group and hold a byte above 127
C24_Witness ==
    /\ conv.kind = "bytes" /\ conv.stage = "threw"
    /\ Len(conv.bytes) % 3 = 1 /\ Pad \in {conv.text[i] : i \in 1..Len(conv.text)}
    /\ \E j \in 1..Len(conv.bytes) : conv.bytes[j] > 127
    /\ conv.back = conv.bytes

\* C25: every sample, inside [-1, 1] or not, becomes a 16-bit value in
\* [-32767, 32767]: 32767 from 1 upwards, -32767 from -1 downwards, and
\* otherwise the product with 32767 with its fraction dropped.
C25_ClampedAndTruncated ==
    (conv.kind = "samples" /\ conv.stage # "input") =>
        /\ Len(conv.pcm) = Len(conv.samples)
        /\ \A i \in 1..Len(conv.samples) :
              LET n == conv.samples[i]
                  v == conv.pcm[i]
              IN  /\ -Int16Max <= v /\ v <= Int16Max
                  /\ n >= SampleSteps => v = Int16Max
                  /\ n <= -SampleSteps => v = -Int16Max
                  /\ InRange(n) =>
                        /\ Abs(v) * SampleSteps <= Abs(n) * Int16Max
                        /\ Abs(n) * Int16Max < (Abs(v) + 1) * SampleSteps
                        /\ (v > 0 => n > 0) /\ (v < 0 => n < 0)

\* one sample above 1 and one with a fractional product, both converted
C25_Witness ==
    /\ conv.kind = "samples" /\ conv.stage = "text"
    /\ \E i \in 1..Len(conv.samples) :
          conv.samples[i] > SampleSteps /\ conv.pcm[i] = Int16Max
    /\ \E i \in 1..Len(conv.samples) :
          /\ conv.samples[i] < 0 /\ InRange(conv.samples[i])
          /\ (conv.samples[i] * Int16Max) % SampleSteps # 0

\* ---- asynchronous message handlers ----------------------------------------
\* C26: chunks are scheduled in the order of their messages, each from the
\* nextStartTime its predecessor wrote, none overlapping its predecessor,
\* and no handler is ever suspended between its reads and its write.
C26_ScheduledOneAtATime ==
    /\ \A i \in Chunks :
          /\ started[i].prev = (IF i = 1 THEN 0 ELSE started[i - 1].next)
          /\ i > 1 => /\ started[i].msg > started[i - 1].msg
                      /\ started[i].start >= started[i - 1].start + started[i - 1].dur
    /\ \A j \in 1..Len(handlers) : handlers[j].stage # "schedule"
    /\ started # <<>> => nextStartTime = started[Len(started)].next

\* two handlers are suspended at their await at once; their chunks were
\* scheduled back to back
C26_Witness ==
    /\ Len(handlers) = 2 /\ Len(started) = 2
    /\ handlers[1].stage = "turn" /\ handlers[2].stage = "turn"
    /\ handlers[1].chunk = started[1] /\ handlers[2].chunk = started[2]
    /\ started[2].start = started[1].start + started[1].dur

\* ---- founder video ---------------------------------------------------------
\* C30: a generation request makes at most two attempts (one automatic
\* retry after a quota failure), and while veoDisabled is set no
\* generation is started by handleSend or by the retry timer.
C30_OneRetryThenLocked ==
    /\ \A r \in Requests : gen.reqs[r].attempts <= 2
    /\ ~gen.startedLocked

\* ---- teardown -------------------------------------------------------------
\* C4: once the manager is torn down (and until connect() is called again) it
\* is not connected and sends no audio or video frame.
C4_NoSendAfterTeardown == tornDown => (~isConnected /\ lateSends = {})

\* C5: a disconnect() directly after a disconnect() raises nothing and
\* releases nothing again.
C5_SecondDisconnectReleasesNothing ==
    [][(justDisc /\ nDisc' = nDisc + 1)
          => (releases' = releases /\ raised' = raised)]_vars

\* C6: after teardown no resource of the manager is still held, none was
\* released more than once, and its transport is closed.
C6_AllReleasedOnce ==
    tornDown =>
        /\ \A r \in Resources :
              /\ res[r] # "live"
              /\ res[r] = "released" => releases[r] = 1
        /\ \A k \in Epochs : transport[k] \notin {"connecting", "open"}

\* C7: no handler raises an error because the manager was torn down before
\* it ran.
C7_NoErrorAfterDisconnect ==
    [handler |-> "onopen", cause |-> "inputContext is null"] \notin raised

\* C8: after an explicit disconnect() no transport event (message, turn
\* complete, error, close) makes the manager invoke onAudioData or onError.
C8_NoCallbackAfterDisconnect ==
    lateCallbacks \cap {"onAudioData", "onError"} = {}

\* ---- connect() failures ---------------------------------------------------
\* C9: when getUserMedia fails, connect() rejects after one onError, no
\* transport was opened for the call, and the connected flag is what it was
\* before (false on a manager that never connected).
C9_State ==
    (pc = "failed" /\ failCause = "mic") =>
        /\ transport[epoch] = "none" /\ promise[epoch] = "none"
        /\ errors[epoch] = 1
        /\ session # epoch
        /\ epoch = 1 => ~isConnected

C9_MicDenied ==
    /\ []C9_State
    /\ [][(pc = "awaitMic" /\ pc' = "failed")
            => (isConnected' = isConnected /\ transport' = transport
                /\ session' = session)]_vars

C9_Witness == pc = "failed" /\ failCause = "mic" /\ errors[epoch] = 1

\* C10: when connect() has returned or thrown, no audio context or microphone
\* stream of that call is held once the call failed or the manager was torn
\* down.
C10_NoLeakOnExit ==
    (pc = "failed" \/ (pc = "done" /\ tornDown)) =>
        /\ res[<<"inCtx", epoch>>] # "live"
        /\ res[<<"outCtx", epoch>>] # "live"
        /\ res[<<"mic", epoch>>] # "live"

====
